---- MODULE Spec2Model ----
(***************************************************************************)
(* transtui: the translation session engine.                               *)
(*                                                                         *)
(* The model follows src/src/main.rs (the event loop), src/src/handlers.rs *)
(* (one action per key branch of each handler), src/src/app.rs (the App    *)
(* methods) and src/src/file_operations.rs (the two persisted artifacts).  *)
(* Text is a sequence of one-character strings; indices are 0-based as in  *)
(* the source (entry i of the code is entries[i + 1] here).  An            *)
(* Option<T> is the empty sequence (None) or a one-element sequence.       *)
(***************************************************************************)
EXTENDS Integers, Sequences, FiniteSets, TLC

(***************************************************************************)
(* Bounds of the model.                                                    *)
(***************************************************************************)
\* longest draft the input collaborator types into the field-edit buffer
MaxLen == 1
\* longest search query the input collaborator types
MaxQuery == 1
\* field edits the input collaborator confirms in one run of the program
MaxCommits == 1

\* the characters the input collaborator types in the text sub-modes; 'T' is
\* also the toggle command of normal navigation
TextChars == {"T"}

\* a character whose UTF-8 encoding takes two bytes, such as e with an acute
\* accent
EAcute == "e_acute"
\* longest draft typed in the field editor when it is explored on its own
MaxDraft == 4
\* the characters typed in the field editor when it is explored on its own
DraftChars == {"b", EAcute}

None == << >>
Some(x) == << x >>

(***************************************************************************)
(* JSON values, src/src/app.rs Entry.original / Entry.translated.          *)
(***************************************************************************)
StrV(s) == [t |-> "String", s |-> s]
NumV(s) == [t |-> "Number", s |-> s]

QUOTE == "\""
BACKSLASH == "\\"

RECURSIVE Escape(_)
\* the escaping of a JSON (and TOML basic) string body
Escape(s) ==
    IF s = << >> THEN << >>
    ELSE (IF Head(s) \in {QUOTE, BACKSLASH} THEN <<BACKSLASH, Head(s)>> ELSE <<Head(s)>>)
         \o Escape(Tail(s))

RECURSIVE Unescape(_)
Unescape(s) ==
    IF s = << >> THEN << >>
    ELSE IF Head(s) = BACKSLASH /\ Len(s) >= 2
         THEN <<s[2]>> \o Unescape(Tail(Tail(s)))
         ELSE <<Head(s)>> \o Unescape(Tail(s))

\* the text of a string literal: quote, escaped body, quote
Quoted(s) == <<QUOTE>> \o Escape(s) \o <<QUOTE>>

\* the string a literal denotes (the text between the outer quotes, unescaped)
Unquoted(txt) == Unescape(SubSeq(txt, 2, Len(txt) - 1))

\* serde_json's Value::to_string / to_string_pretty of a scalar
to_string(v) == IF v.t = "String" THEN Quoted(v.s) ELSE v.s

\* serde_json::from_str of a scalar text written by to_string
from_str(txt) ==
    IF txt # << >> /\ Head(txt) = QUOTE THEN StrV(Unquoted(txt)) ELSE NumV(txt)

RECURSIVE RemoveQuotes(_)
RemoveQuotes(s) ==
    IF s = << >> THEN << >>
    ELSE (IF Head(s) = QUOTE THEN << >> ELSE <<Head(s)>>) \o RemoveQuotes(Tail(s))

\* ui.rs: value.to_string().replace('"', "")
format_json_value(v) == RemoveQuotes(to_string(v))

(***************************************************************************)
(* The files on disk.  For every source document f: the document itself,   *)
(* its translated snapshot <stem>_traduzido.json, its ledger <stem>.toml   *)
(* and the legacy ledger <stem>.txt.                                       *)
(***************************************************************************)
Missing == [k |-> "missing"]
\* exists, but fs::read_to_string fails on it
Unreadable == [k |-> "unreadable"]
\* exists and is read, but is not well-formed
Garbage == [k |-> "garbage"]
\* well-formed JSON that is not an object
NonObject == [k |-> "nonobject"]
\* a JSON object: the sequence of its members in iteration order
Object(m) == [k |-> "object", m |-> m]
\* a structured ledger: the TOML string literals of its keys array
KeysData(keys) == [k |-> "keys", keys |-> keys]
\* a legacy ledger: the ';'-separated items as written
Legacy(items) == [k |-> "legacy", items |-> items]

Member(key, value) == [key |-> key, value |-> value]

\* the candidate documents listed by list_json_files, by position
Files(d) == 1 .. Len(d.src)

KeyA == <<"a">>
KeyBT == <<"b", "T">>
KeyQ == <<"q">>

\* the document of file 1: two keys, a number and a string
Doc1 == Object(<< Member(KeyA, NumV(<<"1">>)), Member(KeyBT, StrV(<<"b">>)) >>)
\* an empty document
Doc0 == Object(<< >>)

\* a snapshot left by an earlier session; it holds a key the document lacks
PriorSnapshot ==
    Object(<< Member(KeyQ, to_string(StrV(<<"b">>))),
              Member(KeyBT, to_string(StrV(<<"T">>))) >>)

\* The disk contents the model starts from: the source documents and the
\* artifacts of file 1 (file 2 has none).
\* nothing saved yet
ScFresh ==
    [src1 |-> Doc1, src2 |-> NonObject,
     snap |-> Missing, toml |-> Missing, txt |-> Missing]
\* an earlier session saved a snapshot and a structured ledger
ScPrior ==
    [src1 |-> Doc1, src2 |-> NonObject,
     snap |-> PriorSnapshot, toml |-> KeysData(<<Quoted(KeyBT), Quoted(KeyQ)>>),
     txt |-> Missing]
\* only a legacy ledger "a; bT" exists, beside a snapshot that does not parse
ScLegacy ==
    [src1 |-> Doc1, src2 |-> NonObject,
     snap |-> Garbage, toml |-> Missing,
     txt |-> Legacy(<<KeyA, <<" ">> \o KeyBT>>)]
\* a document with no keys
ScEmpty ==
    [src1 |-> Doc0, src2 |-> NonObject,
     snap |-> Missing, toml |-> KeysData(<<Quoted(KeyQ)>>), txt |-> Missing]
\* artifacts that cannot be read, or do not parse
ScBadSnapshot ==
    [src1 |-> Doc1, src2 |-> Garbage,
     snap |-> Unreadable, toml |-> Missing, txt |-> Missing]
ScBadLedger ==
    [src1 |-> Doc1, src2 |-> Unreadable,
     snap |-> NonObject, toml |-> Garbage, txt |-> Missing]
ScUnreadableLedger ==
    [src1 |-> Doc1, src2 |-> NonObject,
     snap |-> Missing, toml |-> Unreadable, txt |-> Missing]

Scenarios ==
    {ScFresh, ScPrior, ScLegacy, ScEmpty, ScBadSnapshot, ScBadLedger, ScUnreadableLedger}

\* a directory without candidate documents
NoFiles == [src |-> << >>, snap |-> << >>, toml |-> << >>, txt |-> << >>]

VARIABLES
    state,              \* App.state
    list_selected,      \* App.file_selection.list_state.selected()
    editing,            \* App.editing: Option<EditingState>
    save_confirmation,  \* App.save_confirmation: Option<SaveConfirmationState>
    disk,               \* the files: [src, snap, toml, txt], each by file
    result,             \* the Result of the last handle_events call: "Ok" or "Err"
    loop,               \* run_app: "running", or "returned" once its loop has ended
    io,                 \* the file-system calls of the last event, in order
    commits,            \* field edits confirmed so far (input collaborator)
    request,            \* the key that last asked for a confirmation: "Esc" or "q"
    toggles             \* what held before each of the last toggles made in a row

vars ==
    <<state, list_selected, editing, save_confirmation, disk, result, loop, io,
      commits, request, toggles>>


(***************************************************************************)
(* Small helpers on sequences and maps.                                    *)
(***************************************************************************)
Range(s) == {s[i] : i \in 1 .. Len(s)}

\* Vec::contains
contains(vec, x) == \E i \in 1 .. Len(vec) : vec[i] = x

\* Map::get: the value of the first member with that key
get(map, key) ==
    IF \E i \in 1 .. Len(map) : map[i].key = key
    THEN Some(map[CHOOSE i \in 1 .. Len(map) :
                     map[i].key = key /\ \A j \in 1 .. i - 1 : map[j].key # key].value)
    ELSE None

\* Map::insert: replaces the value of a key already present
insert(map, key, value) ==
    IF \E i \in 1 .. Len(map) : map[i].key = key
    THEN [i \in 1 .. Len(map) |->
             IF map[i].key = key THEN Member(key, value) ELSE map[i]]
    ELSE Append(map, Member(key, value))

RECURSIVE trim_start(_)
trim_start(s) == IF s # << >> /\ Head(s) = " " THEN trim_start(Tail(s)) ELSE s

RECURSIVE trim_end(_)
trim_end(s) ==
    IF s # << >> /\ s[Len(s)] = " " THEN trim_end(SubSeq(s, 1, Len(s) - 1)) ELSE s

\* str::trim
trim(s) == trim_end(trim_start(s))

(***************************************************************************)
(* src/src/file_operations.rs.  A function that returns Result is an       *)
(* operator giving [ok, ...]; one that writes gives the set of its         *)
(* possible outcomes [disk, ok, log], because any file-system call may     *)
(* fail.  A failed fs::write is taken to leave the file as it was.         *)
(***************************************************************************)
\* load_translated_keys(path): ext is the extension of path
\* a loader that finds no key in any ledger
load_translated_keys_none(d, f, ext) == [ok |-> TRUE, keys |-> << >>]

load_translated_keys(d, f, ext) ==
    LET file == IF ext = "toml" THEN d.toml[f] ELSE d.txt[f] IN
    IF file.k = "missing" THEN [ok |-> TRUE, keys |-> << >>]
    ELSE IF file.k = "unreadable" THEN [ok |-> FALSE, keys |-> << >>]
    ELSE IF ext = "toml"
         THEN IF file.k = "keys"
              THEN [ok |-> TRUE,
                    keys |-> [i \in 1 .. Len(file.keys) |-> Unquoted(file.keys[i])]]
              ELSE [ok |-> FALSE, keys |-> << >>]
         ELSE IF file.k = "legacy"
              THEN [ok |-> TRUE,
                    keys |-> SelectSeq([i \in 1 .. Len(file.items) |-> trim(file.items[i])],
                                       LAMBDA s : s # << >>)]
              ELSE [ok |-> TRUE, keys |-> << >>]

\* the keys array of every entry, translated or not
translated_key_list_unfiltered(entries) ==
    [i \in 1 .. Len(entries) |-> Quoted(entries[i].key)]

\* the keys array save_translated_keys serializes
translated_key_list(entries) ==
    LET translated == SelectSeq(entries, LAMBDA e : e.is_translated) IN
    [i \in 1 .. Len(translated) |-> Quoted(translated[i].key)]

\* save_translated_keys leaving a legacy file where it is
save_translated_keys_keeps_legacy(d, f, entries) ==
    { [disk |-> d, ok |-> FALSE, log |-> <<"toml_write_failed">>],
      [disk |-> [d EXCEPT !.toml[f] = KeysData(translated_key_list(entries))],
       ok |-> TRUE, log |-> <<"toml_write">>] }

save_translated_keys(d, f, entries) ==
    LET written == [d EXCEPT !.toml[f] = KeysData(translated_key_list(entries))]
    IN  { [disk |-> d, ok |-> FALSE, log |-> <<"toml_write_failed">>] }
        \cup
        (IF d.txt[f].k = "missing"
         THEN { [disk |-> written, ok |-> TRUE, log |-> <<"toml_write">>] }
         ELSE { [disk |-> [written EXCEPT !.txt[f] = Missing], ok |-> TRUE,
                 log |-> <<"toml_write", "txt_remove">>],
                [disk |-> written, ok |-> FALSE,
                 log |-> <<"toml_write", "txt_remove_failed">>] })

RECURSIVE translated_map(_)
\* the map save_translated_json builds, each value as its JSON text
translated_map(entries) ==
    IF entries = << >> THEN << >>
    ELSE LET n == Len(entries) IN
         insert(translated_map(SubSeq(entries, 1, n - 1)),
                entries[n].key, to_string(entries[n].translated))

\* save_translated_json without its trailing ledger update
save_translated_json_no_ledger(d, f, st) ==
    { [disk |-> d, ok |-> FALSE, log |-> <<"json_write_failed">>],
      [disk |-> [d EXCEPT !.snap[f] = Object(translated_map(st.entries))],
       ok |-> TRUE, log |-> <<"json_write">>] }

save_translated_json(d, f, st) ==
    LET written == [d EXCEPT !.snap[f] = Object(translated_map(st.entries))]
    IN  { [disk |-> d, ok |-> FALSE, log |-> <<"json_write_failed">>] }
        \cup
        { [disk |-> o.disk, ok |-> o.ok, log |-> <<"json_write">> \o o.log] :
            o \in save_translated_keys(written, f, st.entries) }

\* load_existing_translations reading no snapshot at all
load_existing_translations_empty(d, f) ==
    IF d.snap[f].k = "unreadable" THEN [ok |-> FALSE, map |-> << >>]
    ELSE [ok |-> TRUE, map |-> << >>]

\* handlers.rs also hands over the locale's folder and suffix; the function of
\* file_operations.rs takes the document path alone and derives the same
\* <stem>_traduzido.json that save_translated_json writes
load_existing_translations(d, f) ==
    LET file == d.snap[f] IN
        IF file.k = "unreadable" THEN [ok |-> FALSE, map |-> << >>]
        ELSE IF file.k = "object"
        THEN [ok |-> TRUE,
              map |-> [i \in 1 .. Len(file.m) |->
                          Member(file.m[i].key, from_str(file.m[i].value))]]
        ELSE [ok |-> TRUE, map |-> << >>]


(***************************************************************************)
(* src/src/app.rs                                                          *)
(***************************************************************************)
\* Duration::from_secs(2) of check_notification_timeout
NOTIFY_SECS == 2

\* Locale::get: the text of a label (the key itself when the table lacks it)
LocaleGet(key) == key

\* save_notification holds the time elapsed since the Instant it stores
check_notification_timeout(ed) ==
    IF ed # None /\ ed[1].save_notification # None
                 /\ ed[1].save_notification[1] > NOTIFY_SECS
    THEN Some([ed[1] EXCEPT !.save_notification = None])
    ELSE ed

\* char::to_lowercase on the characters the model uses
lower_char(c) ==
    CASE c = "T" -> "t"
      [] c = "B" -> "b"
      [] c = "Q" -> "q"
      [] c = "S" -> "s"
      [] OTHER -> c

to_lowercase(s) == [i \in 1 .. Len(s) |-> lower_char(s[i])]

\* str::contains: pat occurs in s as a contiguous run
str_contains(s, pat) ==
    \E i \in 0 .. Len(s) - Len(pat) : SubSeq(s, i + 1, i + Len(pat)) = pat

RECURSIVE filter_indices(_, _, _)
\* the indices i .. Len(entries) - 1 whose key contains search_lower
filter_indices(entries, search_lower, i) ==
    IF i >= Len(entries) THEN << >>
    ELSE (IF str_contains(to_lowercase(entries[i + 1].key), search_lower)
          THEN <<i>> ELSE << >>)
         \o filter_indices(entries, search_lower, i + 1)

\* update_search_results comparing the query as typed
update_search_results_case_sensitive(st) ==
    LET results == filter_indices(st.entries, st.search_query, 0)
    IN  [st EXCEPT !.search_results = results,
                   !.search_selection = IF results # << >> THEN Some(0) ELSE None]

\* a refresh of the match list that leaves the selection where it was
update_search_results_keeps_selection(st) ==
    LET search_lower == to_lowercase(st.search_query)
        results == filter_indices(st.entries, search_lower, 0)
    IN  [st EXCEPT !.search_results = results]

update_search_results(st) ==
    LET search_lower == to_lowercase(st.search_query)
        results == filter_indices(st.entries, search_lower, 0)
    IN  [st EXCEPT !.search_results = results,
                   !.search_selection = IF results # << >> THEN Some(0) ELSE None]

\* flipping the flag and taking the translated value for the original
flip_entry_resets_original(entries, selected) ==
    [entries EXCEPT ![selected + 1].is_translated = ~entries[selected + 1].is_translated,
                    ![selected + 1].original = entries[selected + 1].translated]

\* the entries with the flag of entry `selected` flipped
flip_entry(entries, selected) ==
    [entries EXCEPT ![selected + 1].is_translated = ~entries[selected + 1].is_translated]

\* toggle_translation counting every toggle up
toggle_translation_counts_up(d, ed) ==
    IF ed # None /\ ed[1].table_selected # None
                 /\ ed[1].table_selected[1] < Len(ed[1].entries)
    THEN LET st == ed[1]
             st2 == [st EXCEPT !.entries = flip_entry(st.entries, st.table_selected[1]),
                               !.translated_keys = st.translated_keys + 1]
         IN  { [editing |-> Some(st2), disk |-> o.disk, ok |-> o.ok, log |-> o.log] :
                 o \in save_translated_keys(d, st.original_path, st2.entries) }
    ELSE { [editing |-> ed, disk |-> d, ok |-> TRUE, log |-> << >>] }

\* toggle_translation setting the flag instead of flipping it
toggle_translation_sets(d, ed) ==
    IF ed # None /\ ed[1].table_selected # None
                 /\ ed[1].table_selected[1] < Len(ed[1].entries)
    THEN LET st == ed[1]
             st2 == [st EXCEPT !.entries[st.table_selected[1] + 1].is_translated = TRUE,
                               !.translated_keys = st.translated_keys + 1]
         IN  { [editing |-> Some(st2), disk |-> o.disk, ok |-> o.ok, log |-> o.log] :
                 o \in save_translated_keys(d, st.original_path, st2.entries) }
    ELSE { [editing |-> ed, disk |-> d, ok |-> TRUE, log |-> << >>] }

\* toggle_translation: the set of outcomes [editing, disk, ok, log]
toggle_translation(d, ed) ==
    IF ed # None /\ ed[1].table_selected # None
                 /\ ed[1].table_selected[1] < Len(ed[1].entries)
    THEN LET st == ed[1]
             selected == st.table_selected[1]
             flipped == flip_entry(st.entries, selected)
             st2 == [st EXCEPT !.entries = flipped,
                               !.translated_keys =
                                   IF flipped[selected + 1].is_translated
                                   THEN st.translated_keys + 1
                                   ELSE st.translated_keys - 1]
         IN  { [editing |-> Some(st2), disk |-> o.disk, ok |-> o.ok, log |-> o.log] :
                 o \in save_translated_keys(d, st.original_path, st2.entries) }
    ELSE { [editing |-> ed, disk |-> d, ok |-> TRUE, log |-> << >>] }

\* no notification armed
armed_never(st) == st

\* the notification save_current_file arms: Instant::now(), nothing elapsed
armed(st) == [st EXCEPT !.save_notification = Some(0)]

\* save_current_file arming the notification before the save is known to succeed
save_current_file_arms_first(d, ed) ==
    IF ed # None
    THEN { [editing |-> Some(armed(ed[1])),
            disk |-> o.disk, ok |-> o.ok, log |-> o.log] :
             o \in save_translated_json(d, ed[1].original_path, ed[1]) }
    ELSE { [editing |-> ed, disk |-> d, ok |-> TRUE, log |-> << >>] }

\* save_current_file: the set of outcomes [editing, disk, ok, log]
save_current_file(d, ed) ==
    IF ed # None
    THEN { [editing |-> IF o.ok THEN Some(armed(ed[1])) ELSE ed,
            disk |-> o.disk, ok |-> o.ok, log |-> o.log] :
             o \in save_translated_json(d, ed[1].original_path, ed[1]) }
    ELSE { [editing |-> ed, disk |-> d, ok |-> TRUE, log |-> << >>] }

\* get_selected_file_path: the selected file, as Option
get_selected_file_path == list_selected

(***************************************************************************)
(* src/src/main.rs run_app: one iteration of the loop reads an event,      *)
(* hands a key to handle_events and, unless that returned Err (which ends  *)
(* the loop), runs check_notification_timeout.  The loop also ends when    *)
(* the state is Exiting.                                                   *)
(***************************************************************************)
Running == loop = "running"

\* the loop going on after the state Exiting was reached
Finish_loops_on(st2, ls2, ed2, sc2, d2, ok, log) ==
    /\ state' = st2
    /\ list_selected' = ls2
    /\ save_confirmation' = sc2
    /\ disk' = d2
    /\ io' = log
    /\ editing' = IF ok THEN check_notification_timeout(ed2) ELSE ed2
    /\ result' = IF ok THEN "Ok" ELSE "Err"
    /\ loop' = IF ok THEN "running" ELSE "returned"

\* the end of an iteration whose handler left the App as given
Finish(st2, ls2, ed2, sc2, d2, ok, log) ==
    /\ state' = st2
    /\ list_selected' = ls2
    /\ save_confirmation' = sc2
    /\ disk' = d2
    /\ io' = log
    /\ editing' = IF ok THEN check_notification_timeout(ed2) ELSE ed2
    /\ result' = IF ok THEN "Ok" ELSE "Err"
    /\ loop' = IF ok /\ st2 # "Exiting" THEN "running" ELSE "returned"

\* an iteration that confirms no field edit, asks for no confirmation and
\* toggles nothing
Return(st2, ls2, ed2, sc2, d2, ok, log) ==
    /\ Finish(st2, ls2, ed2, sc2, d2, ok, log)
    /\ toggles' = << >>
    /\ UNCHANGED <<commits, request>>

\* an iteration whose handler changed nothing but the editing state
ReturnEditing(st) ==
    Return(state, list_selected, Some(st), save_confirmation, disk, TRUE, << >>)

\* an iteration whose handler changed nothing
Ignored == Return(state, list_selected, editing, save_confirmation, disk, TRUE, << >>)

\* App::new: the first file is selected unless the file list is empty
Init ==
    /\ \/ \E sc \in Scenarios :
             disk = [src  |-> <<sc.src1, sc.src2>>,
                     snap |-> <<sc.snap, Missing>>,
                     toml |-> <<sc.toml, Missing>>,
                     txt  |-> <<sc.txt, Missing>>]
       \/ disk = NoFiles
    /\ state = "FileSelection"
    /\ list_selected = IF disk.src # << >> THEN Some(0) ELSE None
    /\ toggles = << >>
    /\ editing = None
    /\ save_confirmation = None
    /\ result = "Ok"
    /\ loop = "running"
    /\ io = << >>
    /\ commits = 0
    /\ request = None

(***************************************************************************)
(* src/src/handlers.rs handle_file_selection                               *)
(***************************************************************************)
\* 'q', 'Q' and Esc
FileSelection_Quit ==
    /\ Running /\ state = "FileSelection"
    /\ Return("Exiting", list_selected, editing, save_confirmation, disk, TRUE, << >>)

FileSelection_Up ==
    /\ Running /\ state = "FileSelection"
    /\ Return(state,
              IF list_selected # None
              THEN Some(IF list_selected[1] > 0 THEN list_selected[1] - 1 ELSE 0)
              ELSE list_selected,
              editing, save_confirmation, disk, TRUE, << >>)

\* Down that does not stop at the last document
FileSelection_Down_unclamped ==
    /\ Running /\ state = "FileSelection"
    /\ Return(state,
              IF list_selected # None THEN Some(list_selected[1] + 1) ELSE list_selected,
              editing, save_confirmation, disk, TRUE, << >>)

FileSelection_Down ==
    /\ Running /\ state = "FileSelection"
    /\ Return(state,
              IF list_selected # None /\ list_selected[1] + 1 < Cardinality(Files(disk))
              THEN Some(list_selected[1] + 1)
              ELSE list_selected,
              editing, save_confirmation, disk, TRUE, << >>)

\* a document that is not an object taken as an object without members
as_object_lenient(data) == IF data.k = "object" THEN Some(data.m) ELSE Some(<< >>)

\* if let Value::Object(original_map) = data
as_object(data) == IF data.k = "object" THEN Some(data.m) ELSE None

\* build_entries ignoring the prior snapshot
build_entries_keeps_original(original_map, existing_translations, translated_keys) ==
    [i \in 1 .. Len(original_map) |->
        [key |-> original_map[i].key,
         original |-> original_map[i].value,
         translated |-> original_map[i].value,
         is_translated |-> contains(translated_keys, original_map[i].key)]]

\* the entries built from the document, the prior snapshot and the ledger
build_entries(original_map, existing_translations, translated_keys) ==
    [i \in 1 .. Len(original_map) |->
        LET key == original_map[i].key
            trans == get(existing_translations, key)
        IN  [key |-> key,
             original |-> original_map[i].value,
             translated |-> IF trans # None THEN trans[1] ELSE original_map[i].value,
             is_translated |-> contains(translated_keys, key)]]

RECURSIVE count_translated(_)
\* translated_count: incremented once for every entry built with is_translated
count_translated(entries) ==
    IF entries = << >> THEN 0
    ELSE (IF Head(entries).is_translated THEN 1 ELSE 0) + count_translated(Tail(entries))

\* a new EditingState that takes over the row cursor and the notification of
\* the session it replaces
new_editing_keeps_cursor(f, entries, total_keys, translated_count) ==
    [entries |-> entries,
     table_selected |-> IF editing # None THEN editing[1].table_selected ELSE Some(0),
     original_path |-> f,
     editing |-> None,
     input |-> << >>,
     cursor_pos |-> 0,
     search_query |-> << >>,
     search_mode |-> FALSE,
     search_results |-> << >>,
     search_selection |-> None,
     total_keys |-> total_keys,
     translated_keys |-> translated_count,
     save_notification |-> IF editing # None THEN editing[1].save_notification ELSE None]

\* the EditingState of a document just opened
new_editing(f, entries, total_keys, translated_count) ==
    [entries |-> entries,
     table_selected |-> Some(0),
     original_path |-> f,
     editing |-> None,
     input |-> << >>,
     cursor_pos |-> 0,
     search_query |-> << >>,
     search_mode |-> FALSE,
     search_results |-> << >>,
     search_selection |-> None,
     total_keys |-> total_keys,
     translated_keys |-> translated_count,
     save_notification |-> None]

FileSelection_Enter ==
    /\ Running /\ state = "FileSelection"
    /\ IF get_selected_file_path = None
       THEN Ignored
       ELSE LET f == get_selected_file_path[1] + 1
                data == disk.src[f]
                existing == load_existing_translations(disk, f)
                keys == load_translated_keys(disk, f, "toml")
            IN  IF data.k \in {"unreadable", "garbage"}
                THEN Return(state, list_selected, editing, save_confirmation,
                            disk, FALSE, << >>)
                ELSE IF as_object(data) = None
                THEN Ignored
                ELSE IF ~existing.ok \/ ~keys.ok
                THEN Return(state, list_selected, editing, save_confirmation,
                            disk, FALSE, << >>)
                ELSE LET original_map == as_object(data)[1]
                         entries == build_entries(original_map, existing.map, keys.keys)
                     IN  Return("Editing", list_selected,
                                Some(new_editing(f, entries, Len(original_map),
                                                 count_translated(entries))),
                                save_confirmation, disk, TRUE, << >>)

\* F2 (switch_language, which changes only the labels) and every other key
FileSelection_Other ==
    /\ Running /\ state = "FileSelection"
    /\ Ignored


(***************************************************************************)
(* src/src/handlers.rs handle_editing, search mode                         *)
(***************************************************************************)
InSearch == Running /\ state = "Editing" /\ editing # None /\ editing[1].search_mode

\* what Enter and Esc both do on leaving search mode
search_closed(st) ==
    [st EXCEPT !.search_mode = FALSE,
               !.search_query = << >>,
               !.search_results = << >>,
               !.search_selection = None]

\* Enter taking the position in the match list for the entry index
Search_Enter_jumps_to_position ==
    /\ InSearch
    /\ LET st == editing[1]
           jumped ==
               IF st.search_selection # None
                  /\ st.search_selection[1] < Len(st.search_results)
               THEN [st EXCEPT !.table_selected = Some(st.search_selection[1])]
               ELSE st
       IN  ReturnEditing(search_closed(jumped))

Search_Enter ==
    /\ InSearch
    /\ LET st == editing[1]
           jumped ==
               IF st.search_selection # None
                  /\ st.search_selection[1] < Len(st.search_results)
               THEN [st EXCEPT !.table_selected =
                                   Some(st.search_results[st.search_selection[1] + 1])]
               ELSE st
       IN  ReturnEditing(search_closed(jumped))

\* Esc moving the row cursor to the selected match as Enter does
Search_Esc_jumps ==
    /\ InSearch
    /\ LET st == editing[1]
           jumped ==
               IF st.search_selection # None
                  /\ st.search_selection[1] < Len(st.search_results)
               THEN [st EXCEPT !.table_selected =
                                   Some(st.search_results[st.search_selection[1] + 1])]
               ELSE st
       IN  ReturnEditing(search_closed(jumped))

Search_Esc ==
    /\ InSearch
    /\ ReturnEditing(search_closed(editing[1]))

\* Up that goes from the first match round to the last
Search_Up_wraps ==
    /\ InSearch
    /\ LET st == editing[1]
           new_selection ==
               IF st.search_selection # None /\ st.search_selection[1] > 0
               THEN Some(st.search_selection[1] - 1)
               ELSE Some(Len(st.search_results) - 1)
       IN  IF st.search_results # << >>
           THEN ReturnEditing([st EXCEPT !.search_selection = new_selection])
           ELSE Ignored

Search_Up ==
    /\ InSearch
    /\ LET st == editing[1]
           new_selection ==
               IF st.search_selection # None /\ st.search_selection[1] > 0
               THEN Some(st.search_selection[1] - 1)
               ELSE IF st.search_selection = None
               THEN Some(Len(st.search_results) - 1)
               ELSE None
       IN  IF st.search_results # << >>
           THEN ReturnEditing([st EXCEPT !.search_selection = new_selection])
           ELSE Ignored

\* Down going from no selection to the last match
Search_Down_from_none_last ==
    /\ InSearch
    /\ LET st == editing[1]
           new_selection ==
               IF st.search_selection # None
                  /\ st.search_selection[1] < Len(st.search_results) - 1
               THEN Some(st.search_selection[1] + 1)
               ELSE IF st.search_selection = None
               THEN Some(Len(st.search_results) - 1)
               ELSE None
       IN  IF st.search_results # << >>
           THEN ReturnEditing([st EXCEPT !.search_selection = new_selection])
           ELSE Ignored

Search_Down ==
    /\ InSearch
    /\ LET st == editing[1]
           new_selection ==
               IF st.search_selection # None
                  /\ st.search_selection[1] < Len(st.search_results) - 1
               THEN Some(st.search_selection[1] + 1)
               ELSE IF st.search_selection = None
               THEN Some(0)
               ELSE None
       IN  IF st.search_results # << >>
           THEN ReturnEditing([st EXCEPT !.search_selection = new_selection])
           ELSE Ignored

Search_Char ==
    /\ InSearch
    /\ Len(editing[1].search_query) < MaxQuery
    /\ \E c \in TextChars :
          ReturnEditing(update_search_results(
              [editing[1] EXCEPT !.search_query = Append(@, c)]))

\* String::pop: drops the last character, if any
pop(s) == IF s = << >> THEN s ELSE SubSeq(s, 1, Len(s) - 1)

Search_Backspace ==
    /\ InSearch
    /\ ReturnEditing(update_search_results(
           [editing[1] EXCEPT !.search_query = pop(@)]))

Search_Other ==
    /\ InSearch
    /\ Ignored

(***************************************************************************)
(* src/src/handlers.rs handle_editing, field-edit mode                     *)
(***************************************************************************)
InFieldEdit ==
    /\ Running /\ state = "Editing" /\ editing # None
    /\ ~editing[1].search_mode /\ editing[1].editing # None

\* leaving field-edit mode with the draft left in the buffer
edit_closed_keeps_draft(st) == [st EXCEPT !.editing = None]

\* what Enter and Esc both do on leaving field-edit mode
edit_closed(st) ==
    [st EXCEPT !.editing = None, !.input = << >>, !.cursor_pos = 0]

\* Enter taking an empty draft for "no change"
FieldEdit_Enter_skips_empty ==
    /\ InFieldEdit
    /\ commits < MaxCommits
    /\ LET st == editing[1]
           editing_index == st.editing[1]
           committed ==
               IF editing_index < Len(st.entries) /\ st.input # << >>
               THEN [st EXCEPT !.entries[editing_index + 1].translated = StrV(st.input)]
               ELSE st
       IN  /\ Finish(state, list_selected, Some(edit_closed(committed)),
                     save_confirmation, disk, TRUE, << >>)
           /\ commits' = commits + 1
           /\ toggles' = << >>
           /\ UNCHANGED request

FieldEdit_Enter ==
    /\ InFieldEdit
    /\ commits < MaxCommits
    /\ LET st == editing[1]
           editing_index == st.editing[1]
           value == IF st.input = << >> THEN StrV(<< >>) ELSE StrV(st.input)
           committed ==
               IF editing_index < Len(st.entries)
               THEN [st EXCEPT !.entries[editing_index + 1].translated = value]
               ELSE st
       IN  /\ Finish(state, list_selected, Some(edit_closed(committed)),
                     save_confirmation, disk, TRUE, << >>)
           /\ commits' = commits + 1
           /\ toggles' = << >>
           /\ UNCHANGED request

\* Esc storing the draft as Enter does
FieldEdit_Esc_commits ==
    /\ InFieldEdit
    /\ LET st == editing[1] IN
       ReturnEditing(edit_closed(
           [st EXCEPT !.entries[st.editing[1] + 1].translated = StrV(st.input)]))

FieldEdit_Esc ==
    /\ InFieldEdit
    /\ ReturnEditing(edit_closed(editing[1]))

FieldEdit_Left ==
    /\ InFieldEdit
    /\ ReturnEditing([editing[1] EXCEPT !.cursor_pos = IF @ > 0 THEN @ - 1 ELSE @])

\* input.chars().count()
chars_count(s) == Len(s)

\* Right moving the caret without looking at the length of the draft
FieldEdit_Right_unclamped ==
    /\ InFieldEdit
    /\ ReturnEditing([editing[1] EXCEPT !.cursor_pos = @ + 1])

FieldEdit_Right ==
    /\ InFieldEdit
    /\ LET st == editing[1] IN
       ReturnEditing([st EXCEPT !.cursor_pos =
                          IF @ < chars_count(st.input) THEN @ + 1 ELSE @])

\* char::len_utf8 on the characters the model uses
len_utf8(c) == IF c = EAcute THEN 2 ELSE 1

RECURSIVE byte_len(_)
\* the bytes of a text: the sum of len_utf8 over its characters
byte_len(s) == IF s = << >> THEN 0 ELSE len_utf8(Head(s)) + byte_len(Tail(s))

\* input.chars().take(n).map(len_utf8).sum()
byte_offset(s, n) == byte_len(SubSeq(s, 1, IF n < Len(s) THEN n ELSE Len(s)))

\* the number of characters that end at or before byte b
chars_before(s, b) ==
    Cardinality({n \in 1 .. Len(s) : byte_offset(s, n) <= b})

\* String::push in the place of String::insert
insert_char_appends(s, byte_pos, c) == Append(s, c)

\* String::insert(byte_pos, c)
insert_char(s, byte_pos, c) ==
    LET n == chars_before(s, byte_pos) IN
    SubSeq(s, 1, n) \o <<c>> \o SubSeq(s, n + 1, Len(s))

\* String::drain(byte_start..byte_end)
drain(s, byte_start, byte_end) ==
    SubSeq(s, 1, chars_before(s, byte_start))
        \o SubSeq(s, chars_before(s, byte_end) + 1, Len(s))

\* input.chars().nth(n).map(len_utf8).unwrap_or(0)
nth_len(s, n) == IF n < Len(s) THEN len_utf8(s[n + 1]) ELSE 0

\* the arm KeyCode::Char(c) of the field editor
key_char(st, c) ==
    LET byte_pos == byte_offset(st.input, st.cursor_pos) IN
    [st EXCEPT !.input = insert_char(st.input, byte_pos, c),
               !.cursor_pos = @ + 1]

\* the arm KeyCode::Backspace of the field editor
key_backspace(st) ==
    LET byte_start == byte_offset(st.input, st.cursor_pos - 1)
        byte_end == byte_start + nth_len(st.input, st.cursor_pos - 1)
    IN  IF st.cursor_pos > 0
        THEN [st EXCEPT !.input = drain(st.input, byte_start, byte_end),
                        !.cursor_pos = @ - 1]
        ELSE st

\* the arm KeyCode::Delete of the field editor
key_delete(st) ==
    LET byte_start == byte_offset(st.input, st.cursor_pos)
        byte_end == byte_start + nth_len(st.input, st.cursor_pos)
    IN  IF st.cursor_pos < chars_count(st.input)
        THEN [st EXCEPT !.input = drain(st.input, byte_start, byte_end)]
        ELSE st

FieldEdit_Char ==
    /\ InFieldEdit
    /\ Len(editing[1].input) < MaxLen
    /\ \E c \in TextChars : ReturnEditing(key_char(editing[1], c))

\* KeyCode::Char(c) for the characters of DraftChars
FieldEdit_DraftChar ==
    /\ InFieldEdit
    /\ Len(editing[1].input) < MaxDraft
    /\ \E c \in DraftChars : ReturnEditing(key_char(editing[1], c))

FieldEdit_Backspace ==
    /\ InFieldEdit
    /\ ReturnEditing(key_backspace(editing[1]))

FieldEdit_Delete ==
    /\ InFieldEdit
    /\ ReturnEditing(key_delete(editing[1]))

FieldEdit_Home ==
    /\ InFieldEdit
    /\ ReturnEditing([editing[1] EXCEPT !.cursor_pos = 0])

FieldEdit_End ==
    /\ InFieldEdit
    /\ ReturnEditing([editing[1] EXCEPT !.cursor_pos = chars_count(editing[1].input)])

FieldEdit_Other ==
    /\ InFieldEdit
    /\ Ignored


(***************************************************************************)
(* src/src/handlers.rs handle_editing, normal navigation                   *)
(***************************************************************************)
\* the commands of normal navigation reached in the text sub-modes as well
InNormal_any_mode == Running /\ state = "Editing" /\ editing # None

InNormal ==
    /\ Running /\ state = "Editing" /\ editing # None
    /\ ~editing[1].search_mode /\ editing[1].editing = None

\* history kept for the double-toggle law: the flag under the row cursor, the
\* counter, the keys of the ledger on disk and the keys flagged, as a toggle
\* finds them
before_toggle(d, st) ==
    [is_translated |-> st.entries[st.table_selected[1] + 1].is_translated,
     translated_keys |-> st.translated_keys,
     ledger |-> IF d.toml[st.original_path].k = "keys"
                THEN {Unquoted(x) : x \in Range(d.toml[st.original_path].keys)}
                ELSE {},
     flagged |-> {st.entries[i].key :
                    i \in {j \in 1 .. Len(st.entries) : st.entries[j].is_translated}}]

\* the last two of the toggles made in a row
last_two(s) == IF Len(s) > 2 THEN SubSeq(s, Len(s) - 1, Len(s)) ELSE s

\* 't' and 'T'
Normal_Toggle ==
    /\ InNormal
    /\ \E o \in toggle_translation(disk, editing) :
          /\ Finish(state, list_selected, o.editing, save_confirmation, o.disk, o.ok, o.log)
          /\ toggles' = IF o.ok /\ o.log # << >>
                        THEN last_two(Append(toggles, before_toggle(disk, editing[1])))
                        ELSE << >>
          /\ UNCHANGED <<commits, request>>

\* 'b' and 'B'
Normal_Save ==
    /\ InNormal
    /\ \E o \in save_current_file(disk, editing) :
          Return(state, list_selected, o.editing, save_confirmation, o.disk, o.ok, o.log)

\* 's' and 'S'
Normal_Search ==
    /\ InNormal
    /\ ReturnEditing(update_search_results(
           [editing[1] EXCEPT !.search_mode = TRUE, !.search_query = << >>]))

\* a confirmation that carries the exit message whatever was requested
confirmation_always_exit(label) ==
    [message |-> LocaleGet("save_exit_confirmation"), return_to |-> "Editing"]

\* a confirmation whose cancel leads back to the file list
confirmation_returns_to_list(label) ==
    [message |-> LocaleGet(label), return_to |-> "FileSelection"]

\* the confirmation a request opens
confirmation(label) == [message |-> LocaleGet(label), return_to |-> "Editing"]

\* 'q' and 'Q'
Normal_Quit ==
    /\ InNormal
    /\ Finish("SaveConfirmation", list_selected, editing,
              Some(confirmation("save_exit_confirmation")), disk, TRUE, << >>)
    /\ request' = Some("q")
    /\ toggles' = << >>
    /\ UNCHANGED commits

\* table_state.selected().unwrap_or(0)
selected_or_0(st) == IF st.table_selected # None THEN st.table_selected[1] ELSE 0

Normal_Up ==
    /\ InNormal
    /\ LET st == editing[1]
           selected == selected_or_0(st)
       IN  ReturnEditing([st EXCEPT !.table_selected =
                              Some(IF selected > 0 THEN selected - 1 ELSE 0)])

Normal_Down ==
    /\ InNormal
    /\ LET st == editing[1]
           new_selected == selected_or_0(st) + 1
       IN  IF new_selected < Len(st.entries)
           THEN ReturnEditing([st EXCEPT !.table_selected = Some(new_selected)])
           ELSE Ignored

\* Enter: state.entries[selected] panics on an index out of range, which
\* ends the loop as an error does
Normal_Enter ==
    /\ InNormal
    /\ LET st == editing[1] IN
       IF st.table_selected = None
       THEN Ignored
       ELSE LET selected == st.table_selected[1] IN
            IF selected < Len(st.entries)
            THEN LET input == format_json_value(st.entries[selected + 1].translated) IN
                 ReturnEditing([st EXCEPT !.editing = Some(selected),
                                          !.input = input,
                                          !.cursor_pos = chars_count(input)])
            ELSE Return(state, list_selected,
                        Some([st EXCEPT !.editing = Some(selected)]),
                        save_confirmation, disk, FALSE, << >>)

\* Esc going back to the file list at once, without a confirmation
Normal_Esc_leaves ==
    /\ InNormal
    /\ Finish("FileSelection", list_selected, editing, save_confirmation,
              disk, TRUE, << >>)
    /\ request' = Some("Esc")
    /\ toggles' = << >>
    /\ UNCHANGED commits

Normal_Esc ==
    /\ InNormal
    /\ Finish("SaveConfirmation", list_selected, editing,
              Some(confirmation("save_return_confirmation")), disk, TRUE, << >>)
    /\ request' = Some("Esc")
    /\ toggles' = << >>
    /\ UNCHANGED commits

\* F2 (switch_language, which changes only the labels) and every other key
Normal_Other ==
    /\ InNormal
    /\ Ignored

(***************************************************************************)
(* src/src/handlers.rs handle_save_confirmation                            *)
(***************************************************************************)
InSaveConfirmation == Running /\ state = "SaveConfirmation"

\* should_exit with the comparison turned around
should_exit_inverted ==
    save_confirmation[1].message # LocaleGet("save_exit_confirmation")

should_exit == save_confirmation[1].message = LocaleGet("save_exit_confirmation")

\* Enter and ' '
SaveConfirmation_Enter ==
    /\ InSaveConfirmation
    /\ IF save_confirmation = None
       THEN Ignored
       ELSE LET return_to == save_confirmation[1].return_to IN
            IF return_to = "Editing"
            THEN \E o \in save_current_file(disk, editing) :
                    Return(IF ~o.ok THEN state
                           ELSE IF should_exit THEN "Exiting" ELSE "FileSelection",
                           list_selected, o.editing, save_confirmation,
                           o.disk, o.ok, o.log)
            ELSE Return(return_to, list_selected, editing, save_confirmation,
                        disk, TRUE, << >>)

SaveConfirmation_Esc ==
    /\ InSaveConfirmation
    /\ IF save_confirmation = None
       THEN Ignored
       ELSE Return(save_confirmation[1].return_to, list_selected, editing,
                   save_confirmation, disk, TRUE, << >>)

SaveConfirmation_Other ==
    /\ InSaveConfirmation
    /\ Ignored

(***************************************************************************)
(* src/src/main.rs run_app: events that are not keys, and time             *)
(***************************************************************************)
\* event::read() returned a mouse or resize event: no handler runs
OtherEvent ==
    /\ Running
    /\ editing' = check_notification_timeout(editing)
    /\ io' = << >>
    /\ UNCHANGED <<state, list_selected, save_confirmation, disk, result, loop, commits,
                   request, toggles>>

\* one second passes while event::read() blocks
Tick ==
    /\ Running
    /\ editing # None
    /\ editing[1].save_notification # None
    /\ editing[1].save_notification[1] <= NOTIFY_SECS
    /\ editing' = Some([editing[1] EXCEPT !.save_notification = Some(@[1] + 1)])
    /\ UNCHANGED <<state, list_selected, save_confirmation, disk, result, loop, io, commits,
                   request, toggles>>

Next ==
    \/ FileSelection_Quit
    \/ FileSelection_Up
    \/ FileSelection_Down
    \/ FileSelection_Enter
    \/ FileSelection_Other
    \/ Search_Enter
    \/ Search_Esc
    \/ Search_Up
    \/ Search_Down
    \/ Search_Char
    \/ Search_Backspace
    \/ Search_Other
    \/ FieldEdit_Enter
    \/ FieldEdit_Esc
    \/ FieldEdit_Left
    \/ FieldEdit_Right
    \/ FieldEdit_Char
    \/ FieldEdit_Backspace
    \/ FieldEdit_Delete
    \/ FieldEdit_Home
    \/ FieldEdit_End
    \/ FieldEdit_Other
    \/ Normal_Toggle
    \/ Normal_Save
    \/ Normal_Search
    \/ Normal_Quit
    \/ Normal_Up
    \/ Normal_Down
    \/ Normal_Enter
    \/ Normal_Esc
    \/ Normal_Other
    \/ SaveConfirmation_Enter
    \/ SaveConfirmation_Esc
    \/ SaveConfirmation_Other
    \/ OtherEvent
    \/ Tick

Spec == Init /\ [][Next]_vars

(***************************************************************************)
(* The field editor on its own: one document whose only value is a text    *)
(* with a two-byte character, no artifacts, and the keys of the file list, *)
(* of normal navigation and of field-edit mode that lead into and through  *)
(* the editor, with drafts of up to MaxDraft characters of DraftChars.     *)
(***************************************************************************)
EditDoc == Object(<< Member(KeyA, StrV(<<EAcute, "b">>)) >>)

EditInit ==
    /\ disk = [src |-> <<EditDoc>>, snap |-> <<Missing>>,
               toml |-> <<Missing>>, txt |-> <<Missing>>]
    /\ state = "FileSelection"
    /\ list_selected = Some(0)
    /\ toggles = << >>
    /\ editing = None
    /\ save_confirmation = None
    /\ result = "Ok"
    /\ loop = "running"
    /\ io = << >>
    /\ commits = 0
    /\ request = None

EditNext ==
    \/ FileSelection_Enter
    \/ Normal_Enter
    \/ FieldEdit_Enter
    \/ FieldEdit_Esc
    \/ FieldEdit_Left
    \/ FieldEdit_Right
    \/ FieldEdit_DraftChar
    \/ FieldEdit_Backspace
    \/ FieldEdit_Delete
    \/ FieldEdit_Home
    \/ FieldEdit_End

EditSpec == EditInit /\ [][EditNext]_vars


(***************************************************************************)
(* What the claims speak of.                                               *)
(***************************************************************************)
\* the on-disk snapshot of the session's document is exactly {key: translated}
SnapshotMatches(d, st) ==
    LET file == d.snap[st.original_path] IN
    /\ file.k = "object"
    /\ \A i \in 1 .. Len(st.entries) :
          \E j \in 1 .. Len(file.m) :
             /\ file.m[j].key = st.entries[i].key
             /\ from_str(file.m[j].value) = st.entries[i].translated
    /\ \A j \in 1 .. Len(file.m) :
          \E i \in 1 .. Len(st.entries) : st.entries[i].key = file.m[j].key

\* the keys the structured ledger of file f lists
LedgerKeys(d, f) ==
    IF d.toml[f].k = "keys" THEN {Unquoted(x) : x \in Range(d.toml[f].keys)} ELSE {}

\* the keys of the entries marked translated
TranslatedKeySet(st) ==
    {st.entries[i].key : i \in {j \in 1 .. Len(st.entries) : st.entries[j].is_translated}}

\* the on-disk ledger of the session's document is exactly the translated keys
LedgerMatches(d, st) ==
    /\ d.toml[st.original_path].k = "keys"
    /\ LedgerKeys(d, st.original_path) = TranslatedKeySet(st)

\* two sessions that differ at most in the save notification
SameSession(a, b) ==
    \/ a = None /\ b = None
    \/ /\ a # None /\ b # None
       /\ [a[1] EXCEPT !.save_notification = None]
            = [b[1] EXCEPT !.save_notification = None]

\* the last event was a save: its first file-system call wrote the snapshot
SaveEvent(log) == log # << >> /\ log[1] \in {"json_write", "json_write_failed"}
Saved(log) == log # << >> /\ log[1] = "json_write"

\* some entry carries an edit or a flag
Dirty(st) ==
    \E i \in 1 .. Len(st.entries) :
       st.entries[i].translated # st.entries[i].original /\ st.entries[i].is_translated

(***************************************************************************)
(* C1: every event that writes the snapshot goes on to the ledger write    *)
(* as its next file-system call, in the same event; and when no call of    *)
(* the event failed, the snapshot on disk is {key: translated} over all    *)
(* entries and the ledger on disk is the set of keys with is_translated.   *)
(***************************************************************************)
C1_SnapshotThenLedger ==
    Saved(io) =>
        /\ Len(io) >= 2
        /\ io[2] \in {"toml_write", "toml_write_failed"}
        /\ result = "Ok" =>
              /\ editing # None
              /\ SnapshotMatches(disk, editing[1])
              /\ LedgerMatches(disk, editing[1])

\* a confirmed save-and-exit has written a flagged, edited entry
C1_Witness ==
    /\ state = "Exiting"
    /\ result = "Ok"
    /\ io = <<"json_write", "toml_write">>
    /\ editing # None /\ Dirty(editing[1])

(***************************************************************************)
(* C2: in every state with a session, translated_keys is the number of     *)
(* entries with is_translated, and 0 <= translated_keys <= total_keys;     *)
(* right after a load it is the number of document keys listed in the      *)
(* structured ledger on disk.                                              *)
(***************************************************************************)
C2_Recount ==
    editing # None =>
        LET st == editing[1] IN
        /\ st.translated_keys
             = Cardinality({i \in 1 .. Len(st.entries) : st.entries[i].is_translated})
        /\ 0 <= st.translated_keys
        /\ st.translated_keys <= st.total_keys

C2_TranslatedKeysIsRecount ==
    /\ []C2_Recount
    /\ [][(FileSelection_Enter /\ state' = "Editing") =>
            LET f == list_selected[1] + 1
                doc == disk.src[f].m
            IN  editing'[1].translated_keys
                  = Cardinality({i \in 1 .. Len(doc) : doc[i].key \in LedgerKeys(disk, f)})]_vars

\* a toggle has just taken the counter of a two-key document down to zero
C2_Witness ==
    /\ editing # None
    /\ editing[1].total_keys = 2
    /\ editing[1].translated_keys = 0
    /\ result = "Ok"
    /\ io = <<"toml_write">>

(***************************************************************************)
(* C3: a save that fails at any step leaves both on-disk artifacts as      *)
(* they were before the save.                                              *)
(***************************************************************************)
C3_NoPartialPersistence ==
    [][(SaveEvent(io') /\ result' = "Err") => disk' = disk]_vars

(***************************************************************************)
(* C4: when a write of an explicit or confirmed save fails, the event      *)
(* returns an error and the session, the top-level state and the pending   *)
(* confirmation are as before: no notification is armed and                *)
(* SaveConfirmation does not move on.                                      *)
(***************************************************************************)
C4_FailedSaveLeavesState ==
    [][(SaveEvent(io') /\ io'[Len(io')] \in {"json_write_failed", "toml_write_failed",
                                               "txt_remove_failed"}) =>
          /\ result' = "Err"
          /\ editing' = editing
          /\ state' = state
          /\ save_confirmation' = save_confirmation]_vars

\* a confirmed save whose ledger write failed
C4_Witness ==
    /\ state = "SaveConfirmation"
    /\ result = "Err"
    /\ io = <<"json_write", "toml_write_failed">>

(***************************************************************************)
(* C5: when the ledger write of a toggle fails, the session is as before   *)
(* the toggle: the flag and translated_keys keep their values.             *)
(***************************************************************************)
C5_FailedToggleLeavesSession ==
    [][(io' = <<"toml_write_failed">> /\ result' = "Err") => editing' = editing]_vars

(***************************************************************************)
(* C6: an error returned by an event handler does not end the event loop.  *)
(***************************************************************************)
C6_LoopSurvivesErrors == result = "Err" => loop = "running"

(***************************************************************************)
(* C7: after a successful save, opening the same document again gives,     *)
(* for every key, the translated value held before the save, and the same  *)
(* set of is_translated keys.                                              *)
(***************************************************************************)
C7_RoundTrip ==
    [][(/\ FileSelection_Enter
        /\ editing # None /\ Saved(io) /\ result = "Ok"
        /\ list_selected = Some(editing[1].original_path - 1)) =>
          /\ state' = "Editing"
          /\ editing' # None
          /\ Len(editing'[1].entries) = Len(editing[1].entries)
          /\ \A i \in 1 .. Len(editing[1].entries) :
                /\ editing'[1].entries[i].key = editing[1].entries[i].key
                /\ editing'[1].entries[i].translated = editing[1].entries[i].translated
          /\ TranslatedKeySet(editing'[1]) = TranslatedKeySet(editing[1])]_vars

\* saved and back in file selection, on the document, with an edit and a flag
C7_Witness ==
    /\ state = "FileSelection"
    /\ editing # None /\ Saved(io) /\ result = "Ok"
    /\ list_selected = Some(editing[1].original_path - 1)
    /\ Dirty(editing[1])
    /\ \E i \in 1 .. Len(editing[1].entries) : ~editing[1].entries[i].is_translated

(***************************************************************************)
(* C8: a toggle in normal navigation whose ledger write succeeds flips     *)
(* the flag of the entry under the row cursor and of no other, leaves the  *)
(* ledger on disk listing exactly the keys now flagged, and leaves the     *)
(* snapshot on disk as it was.                                             *)
(***************************************************************************)
C8_ToggleWritesLedgerOnly ==
    [][(/\ Normal_Toggle
        /\ result' = "Ok"
        /\ editing[1].table_selected[1] < Len(editing[1].entries)) =>
          LET old == editing[1].entries
              new == editing'[1].entries
              row == editing[1].table_selected[1] + 1
          IN  /\ Len(new) = Len(old)
              /\ new[row].is_translated = ~old[row].is_translated
              /\ \A i \in 1 .. Len(old) : i # row => new[i] = old[i]
              /\ io'[1] = "toml_write"
              /\ LedgerMatches(disk', editing'[1])
              /\ disk'.snap = disk.snap]_vars

\* a toggle went through beside a snapshot of an earlier session
C8_Witness ==
    /\ state = "Editing"
    /\ result = "Ok"
    /\ io = <<"toml_write">>
    /\ disk.snap[1] = PriorSnapshot
    /\ editing[1].translated_keys = 2

(***************************************************************************)
(* C9: an explicit save in normal navigation that succeeds writes the      *)
(* snapshot and the ledger, arms the save notification and leaves the      *)
(* state Editing and every entry, cursor and counter as they were; and a   *)
(* notification is armed only by a save that succeeded.                    *)
(***************************************************************************)
NotificationOf(ed) == IF ed = None THEN None ELSE ed[1].save_notification

NewlyArmed ==
    /\ NotificationOf(editing') # None
    /\ \/ NotificationOf(editing) = None
       \/ NotificationOf(editing')[1] < NotificationOf(editing)[1]

C9_ExplicitSave ==
    /\ [][(Normal_Save /\ result' = "Ok") =>
            /\ io'[1] = "json_write" /\ io'[2] = "toml_write"
            /\ SnapshotMatches(disk', editing[1])
            /\ LedgerMatches(disk', editing[1])
            /\ NotificationOf(editing') = Some(0)
            /\ state' = "Editing"
            /\ SameSession(editing', editing)]_vars
    /\ [][NewlyArmed =>
            /\ result' = "Ok"
            /\ Saved(io')
            /\ io'[Len(io')] \in {"toml_write", "txt_remove"}]_vars

\* an explicit save has just armed the notification
C9_Witness ==
    /\ state = "Editing"
    /\ result = "Ok"
    /\ Saved(io)
    /\ NotificationOf(editing) = Some(0)
    /\ Dirty(editing[1])

(***************************************************************************)
(* C10: Esc or q/Q in normal navigation moves the state to                 *)
(* SaveConfirmation, which carries which of save-and-return and            *)
(* save-and-exit is pending; the event writes nothing and leaves the       *)
(* session as it was.                                                      *)
(***************************************************************************)
C10_RequestOpensConfirmation ==
    [][(Normal_Esc \/ Normal_Quit) =>
          /\ state' = "SaveConfirmation"
          /\ save_confirmation' # None
          /\ save_confirmation'[1].message =
                IF request' = Some("q") THEN LocaleGet("save_exit_confirmation")
                ELSE LocaleGet("save_return_confirmation")
          /\ LocaleGet("save_exit_confirmation") # LocaleGet("save_return_confirmation")
          /\ disk' = disk
          /\ io' = << >>
          /\ SameSession(editing', editing)]_vars

\* save-and-return is pending over a session with an edit not yet on disk
C10_Witness ==
    /\ state = "SaveConfirmation"
    /\ save_confirmation # None
    /\ save_confirmation[1].message = LocaleGet("save_return_confirmation")
    /\ request = Some("Esc")
    /\ editing # None
    /\ ~SnapshotMatches(disk, editing[1])
    /\ commits = 1

(***************************************************************************)
(* C11: confirming (Enter or space) in SaveConfirmation, when its save     *)
(* goes through, has written the snapshot and the ledger of the session    *)
(* and moves the state to Exiting when q/Q opened the confirmation and to  *)
(* FileSelection when Esc opened it.                                       *)
(***************************************************************************)
C11_ConfirmSavesThenLeaves ==
    [][(SaveConfirmation_Enter /\ result' = "Ok") =>
          /\ request # None
          /\ Saved(io')
          /\ io'[2] = "toml_write"
          /\ SnapshotMatches(disk', editing[1])
          /\ LedgerMatches(disk', editing[1])
          /\ state' = IF request = Some("q") THEN "Exiting" ELSE "FileSelection"]_vars

\* save-and-exit, asked for with q, has been confirmed over an edited entry
C11_Witness ==
    /\ state = "Exiting"
    /\ request = Some("q")
    /\ result = "Ok"
    /\ Saved(io)
    /\ commits = 1
    /\ editing # None /\ SnapshotMatches(disk, editing[1])

(***************************************************************************)
(* C12: while the state is SaveConfirmation no event changes the session   *)
(* (entries, flags, counters, row cursor, sub-mode), so at a cancel it is  *)
(* as it was when the confirmation was requested; the cancel (Esc) moves   *)
(* the state to Editing and writes no file.                                *)
(***************************************************************************)
C12_CancelReturnsToEditing ==
    [][state = "SaveConfirmation" =>
          /\ SameSession(editing', editing)
          /\ SaveConfirmation_Esc =>
                /\ state' = "Editing"
                /\ disk' = disk
                /\ io' = << >>
                /\ result' = "Ok"]_vars

\* a request was cancelled: back in normal navigation, with an edit and no
\* snapshot ever written
C12_Witness ==
    /\ state = "Editing"
    /\ save_confirmation # None
    /\ request # None
    /\ io = << >>
    /\ commits = 1
    /\ editing # None
    /\ ~editing[1].search_mode /\ editing[1].editing = None
    /\ disk.snap[editing[1].original_path] = Missing

(***************************************************************************)
(* C13: an open that reaches Editing builds one entry per member of the    *)
(* source document, in its order and with its key and value as original;   *)
(* translated is the value the snapshot on disk holds for the key when it  *)
(* is an object holding the key, and original otherwise; is_translated     *)
(* holds exactly for the keys the structured ledger on disk lists.  Keys   *)
(* only the snapshot or the ledger hold give no entry.                     *)
(***************************************************************************)
\* the value the snapshot on disk holds for a key, if any
SnapshotValue(d, f, key) ==
    LET file == d.snap[f] IN
    IF file.k = "object" /\ \E j \in 1 .. Len(file.m) : file.m[j].key = key
    THEN Some(from_str(file.m[CHOOSE j \in 1 .. Len(file.m) : file.m[j].key = key].value))
    ELSE None

C13_OpenBuildsEntries ==
    [][(FileSelection_Enter /\ state' = "Editing") =>
          LET f == list_selected[1] + 1
              doc == disk.src[f].m
              new == editing'[1].entries
          IN  /\ Len(new) = Len(doc)
              /\ editing'[1].total_keys = Len(doc)
              /\ \A i \in 1 .. Len(doc) :
                    /\ new[i].key = doc[i].key
                    /\ new[i].original = doc[i].value
                    /\ new[i].translated =
                          IF SnapshotValue(disk, f, doc[i].key) # None
                          THEN SnapshotValue(disk, f, doc[i].key)[1]
                          ELSE doc[i].value
                    /\ new[i].is_translated <=> doc[i].key \in LedgerKeys(disk, f)]_vars

\* just opened beside the artifacts of an earlier session, which hold a key
\* the document lacks and lack a key the document holds
C13_Witness ==
    /\ state = "Editing"
    /\ io = << >>
    /\ commits = 0
    /\ disk.snap[1] = PriorSnapshot
    /\ disk.toml[1] = ScPrior.toml
    /\ editing # None
    /\ Len(editing[1].entries) = 2
    /\ editing[1].entries[1].translated = editing[1].entries[1].original
    /\ ~editing[1].entries[1].is_translated
    /\ editing[1].entries[2].translated = StrV(<<"T">>)
    /\ editing[1].entries[2].original = StrV(<<"b">>)
    /\ editing[1].entries[2].is_translated

(***************************************************************************)
(* C14: opening an object document whose snapshot is missing or does not   *)
(* parse as an object, and whose ledger is missing or does not parse,      *)
(* reaches Editing and returns no error.                                   *)
(***************************************************************************)
C14_UnparsableArtifactsAreEmpty ==
    [][(/\ FileSelection_Enter
        /\ list_selected # None
        /\ disk.src[list_selected[1] + 1].k = "object"
        /\ disk.snap[list_selected[1] + 1].k \in {"missing", "garbage", "nonobject", "object"}
        /\ disk.toml[list_selected[1] + 1].k \in {"missing", "garbage", "keys"}) =>
          /\ state' = "Editing"
          /\ result' = "Ok"]_vars

(***************************************************************************)
(* C15: opening a document that has a legacy ledger and no structured      *)
(* ledger marks as translated every entry whose key is an item of the      *)
(* legacy file (items trimmed, empty items dropped).                       *)
(***************************************************************************)
\* the keys a legacy ledger lists
LegacyKeys(d, f) ==
    IF d.txt[f].k = "legacy" THEN {trim(x) : x \in Range(d.txt[f].items)} \ {<< >>} ELSE {}

C15_LegacyLedgerIsLoaded ==
    [][(/\ FileSelection_Enter
        /\ state' = "Editing"
        /\ disk.toml[list_selected[1] + 1] = Missing
        /\ disk.txt[list_selected[1] + 1].k = "legacy") =>
          \A i \in 1 .. Len(editing'[1].entries) :
             editing'[1].entries[i].key \in LegacyKeys(disk, list_selected[1] + 1)
                => editing'[1].entries[i].is_translated]_vars

(***************************************************************************)
(* C16: after every toggle or save that wrote the structured ledger and    *)
(* returned Ok, the document has no legacy ledger file; and the only       *)
(* change any event makes to a legacy ledger file is to remove it, so      *)
(* none is ever created or written.                                        *)
(***************************************************************************)
C16_LegacyMigrationOneWay ==
    /\ []((result = "Ok" /\ contains(io, "toml_write") /\ editing # None) =>
             disk.txt[editing[1].original_path] = Missing)
    /\ [][\A f \in Files(disk) :
             disk'.txt[f] # disk.txt[f] => disk'.txt[f] = Missing]_vars

\* a toggle has replaced the legacy ledger by the structured one
C16_Witness ==
    /\ state = "Editing"
    /\ result = "Ok"
    /\ io = <<"toml_write", "txt_remove">>
    /\ disk.txt[1] = Missing
    /\ disk.toml[1].k = "keys"
    /\ editing # None /\ editing[1].translated_keys = 1

(***************************************************************************)
(* C17: Enter in FileSelection on a source document that cannot be read,   *)
(* is not well-formed JSON or is not a JSON object leaves the state        *)
(* FileSelection, the file cursor where it was and the session (none, or   *)
(* the one of an earlier open, whose notification the loop may clear)      *)
(* untouched, and writes nothing.                                          *)
(***************************************************************************)
C17_BadDocumentAbortsOpen ==
    [][(/\ FileSelection_Enter
        /\ list_selected # None
        /\ disk.src[list_selected[1] + 1].k # "object") =>
          /\ state' = "FileSelection"
          /\ list_selected' = list_selected
          /\ SameSession(editing', editing)
          /\ disk' = disk
          /\ io' = << >>]_vars

\* the open of the second document, which does not parse, has failed
C17_Witness ==
    /\ state = "FileSelection"
    /\ list_selected = Some(1)
    /\ disk.src[2] = Garbage
    /\ result = "Err"
    /\ editing = None

(***************************************************************************)
(* C18: Enter in FileSelection on a source document that is well-formed    *)
(* JSON but not an object returns an error: wherever the file cursor is    *)
(* on such a document, no Enter is possible that returns Ok.               *)
(***************************************************************************)
C18_NonObjectIsAnError ==
    (/\ Running /\ state = "FileSelection"
     /\ list_selected # None
     /\ disk.src[list_selected[1] + 1].k = "nonobject") =>
        ~ENABLED (FileSelection_Enter /\ result' = "Ok")

(***************************************************************************)
(* C19: in search mode with an empty query, the match list is empty and    *)
(* the search selection is None.                                           *)
(***************************************************************************)
C19_EmptyQueryMatchesNothing ==
    (editing # None /\ editing[1].search_mode /\ editing[1].search_query = << >>) =>
        /\ editing[1].search_results = << >>
        /\ editing[1].search_selection = None

(***************************************************************************)
(* C20: with a match list that is not empty, Up in search mode with the    *)
(* selection on the first match, and Down with the selection on the last   *)
(* match, both set the selection to None and leave the list as it is.      *)
(***************************************************************************)
C20_NoWraparound ==
    [][(InSearch /\ editing[1].search_results # << >>) =>
          LET st == editing[1] IN
          /\ (Search_Up /\ st.search_selection = Some(0)) =>
                /\ editing'[1].search_selection = None
                /\ editing'[1].search_results = st.search_results
          /\ (Search_Down /\ st.search_selection = Some(Len(st.search_results) - 1)) =>
                /\ editing'[1].search_selection = None
                /\ editing'[1].search_results = st.search_results]_vars

\* the selection has left a list of two matches
C20_Witness ==
    /\ state = "Editing"
    /\ editing # None /\ editing[1].search_mode
    /\ Len(editing[1].search_results) = 2
    /\ editing[1].search_selection = None

(***************************************************************************)
(* C21: in search mode with a query that is not empty, the match list is   *)
(* strictly ascending and holds exactly the indices of the entries whose   *)
(* key has a run of characters equal, letter case aside, to the query.     *)
(***************************************************************************)
\* texts of the same length that agree character by character, case aside
SameIgnoringCase(x, y) ==
    /\ Len(x) = Len(y)
    /\ \A i \in 1 .. Len(x) : lower_char(x[i]) = lower_char(y[i])

\* the 0-based indices of the entries whose key holds the query
Matching(st) ==
    {i \in 0 .. Len(st.entries) - 1 :
        LET key == st.entries[i + 1].key IN
        \E from \in 1 .. Len(key) - Len(st.search_query) + 1 :
           SameIgnoringCase(SubSeq(key, from, from + Len(st.search_query) - 1),
                            st.search_query)}

SearchCleared(st) ==
    /\ ~st.search_mode
    /\ st.search_query = << >>
    /\ st.search_results = << >>
    /\ st.search_selection = None

\* an event that changed neither the entries, the counters nor the files
EntriesAndFilesKept ==
    /\ editing'[1].entries = editing[1].entries
    /\ editing'[1].translated_keys = editing[1].translated_keys
    /\ editing'[1].total_keys = editing[1].total_keys
    /\ disk' = disk
    /\ io' = << >>

C22_SearchConfirmJumps ==
    [][Search_Enter =>
          LET st == editing[1] IN
          /\ state' = "Editing"
          /\ SearchCleared(editing'[1])
          /\ editing'[1].table_selected =
                IF st.search_selection # None
                THEN Some(st.search_results[st.search_selection[1] + 1])
                ELSE st.table_selected
          /\ EntriesAndFilesKept]_vars

\* out of search mode with the row cursor on the second entry
C22_Witness ==
    /\ state = "Editing"
    /\ editing # None
    /\ SearchCleared(editing[1])
    /\ editing[1].editing = None
    /\ editing[1].table_selected = Some(1)
    /\ io = << >>
    /\ toggles = << >>

(***************************************************************************)
(* C23: Esc in search mode leaves search mode with the query, the match    *)
(* list and the selection cleared, and leaves the row cursor, every entry, *)
(* translated_keys and the files on disk as they were.                     *)
(***************************************************************************)
C23_SearchCancelKeepsCursor ==
    [][Search_Esc =>
          /\ state' = "Editing"
          /\ SearchCleared(editing'[1])
          /\ editing'[1].table_selected = editing[1].table_selected
          /\ EntriesAndFilesKept]_vars

\* out of search mode with a flagged entry and the row cursor on the first
C23_Witness ==
    /\ state = "Editing"
    /\ editing # None
    /\ SearchCleared(editing[1])
    /\ editing[1].editing = None
    /\ editing[1].table_selected = Some(0)
    /\ editing[1].translated_keys = 1
    /\ io = << >>
    /\ toggles = << >>

(***************************************************************************)
(* C24: Enter in field-edit mode stores the draft, as a string value, as   *)
(* the translated value of the entry being edited (the empty string for    *)
(* an empty draft, also where the value was a number), leaves field-edit   *)
(* mode, and changes neither original nor is_translated of that entry,     *)
(* nor any other entry, nor the counters or the files.                     *)
(***************************************************************************)
C24_CommitStoresDraftAsText ==
    [][FieldEdit_Enter =>
          LET st == editing[1]
              row == st.editing[1] + 1
              new == editing'[1]
          IN  /\ row \in 1 .. Len(st.entries)
              /\ Len(new.entries) = Len(st.entries)
              /\ new.entries[row].translated = [t |-> "String", s |-> st.input]
              /\ new.entries[row].key = st.entries[row].key
              /\ new.entries[row].original = st.entries[row].original
              /\ new.entries[row].is_translated = st.entries[row].is_translated
              /\ \A i \in 1 .. Len(st.entries) : i # row => new.entries[i] = st.entries[i]
              /\ new.editing = None /\ new.input = << >> /\ new.cursor_pos = 0
              /\ new.translated_keys = st.translated_keys
              /\ new.table_selected = st.table_selected
              /\ disk' = disk]_vars

\* the number 1 was emptied in the draft and confirmed: it is now the empty
\* string, beside its original
C24_Witness ==
    /\ state = "Editing"
    /\ commits = 1
    /\ editing # None /\ editing[1].editing = None
    /\ editing[1].entries[1].original = NumV(<<"1">>)
    /\ editing[1].entries[1].translated = StrV(<< >>)
    /\ ~editing[1].entries[1].is_translated

(***************************************************************************)
(* C25: no event of field-edit mode other than its Enter changes an        *)
(* entry, translated_keys, the row cursor or the files, so at a cancel     *)
(* they are as they were when the mode was entered; the cancel (Esc)       *)
(* leaves the mode with the draft discarded.                               *)
(***************************************************************************)
C25_CancelDiscardsDraft ==
    [][InFieldEdit =>
          /\ ~FieldEdit_Enter =>
                /\ editing'[1].table_selected = editing[1].table_selected
                /\ EntriesAndFilesKept
          /\ FieldEdit_Esc =>
                /\ state' = "Editing"
                /\ editing'[1].editing = None
                /\ editing'[1].input = << >>
                /\ editing'[1].cursor_pos = 0]_vars

\* back in normal navigation on the second row, both entries flagged and
\* no draft ever confirmed
C25_Witness ==
    /\ state = "Editing"
    /\ commits = 0
    /\ editing # None
    /\ editing[1].editing = None /\ ~editing[1].search_mode
    /\ editing[1].table_selected = Some(1)
    /\ editing[1].entries[2].translated = editing[1].entries[2].original
    /\ editing[1].translated_keys = 2
    /\ io = << >>

(***************************************************************************)
(* C26: after two toggles in a row (on the same entry, both ledger writes  *)
(* succeeding) the entry's is_translated and translated_keys are what      *)
(* they were before the first, and the ledger on disk lists exactly the    *)
(* keys that were flagged before the first toggle.                         *)
(***************************************************************************)
\* two toggles were just made in a row
ToggledTwice == Len(toggles) = 2 /\ editing # None /\ editing[1].table_selected # None

C26_DoubleToggleRestores ==
    ToggledTwice =>
        LET st == editing[1] IN
        /\ st.entries[st.table_selected[1] + 1].is_translated = toggles[1].is_translated
        /\ st.translated_keys = toggles[1].translated_keys
        /\ LedgerKeys(disk, st.original_path) = toggles[1].flagged
        /\ TranslatedKeySet(st) = toggles[1].flagged

\* toggled twice beside the ledger of an earlier session, which listed a
\* key the document lacks
C26_Witness ==
    /\ ToggledTwice
    /\ result = "Ok"
    /\ toggles[1].ledger = {KeyBT, KeyQ}
    /\ toggles[1].is_translated
    /\ toggles[1].translated_keys = 1

\* C26 as claimed: after two toggles in a row the key set of the ledger on
\* disk is what it was before the first toggle, as are is_translated and
\* translated_keys
C26_DoubleToggleRestoresLedger ==
    ToggledTwice =>
        LET st == editing[1] IN
        /\ st.entries[st.table_selected[1] + 1].is_translated = toggles[1].is_translated
        /\ st.translated_keys = toggles[1].translated_keys
        /\ LedgerKeys(disk, st.original_path) = toggles[1].ledger

(***************************************************************************)
(* C27: in every state with a session, search mode and field-edit mode     *)
(* are not both active, and when no field edit is in progress the draft    *)
(* is empty and the caret is 0.                                            *)
(***************************************************************************)
C27_SubModesExclusive ==
    editing # None =>
        LET st == editing[1] IN
        /\ ~(st.search_mode /\ st.editing # None)
        /\ st.editing = None => (st.input = << >> /\ st.cursor_pos = 0)

\* searching, after a field edit was confirmed
C27_Witness ==
    /\ state = "Editing"
    /\ editing # None
    /\ editing[1].search_mode
    /\ editing[1].search_query # << >>
    /\ editing[1].editing = None
    /\ commits = 1

(***************************************************************************)
(* C28: in every Editing state the row cursor is the index of an entry.    *)
(***************************************************************************)
C28_RowCursorInRange ==
    (state = "Editing" /\ editing # None) =>
        /\ editing[1].table_selected # None
        /\ editing[1].table_selected[1] >= 0
        /\ editing[1].table_selected[1] < Len(editing[1].entries)

(***************************************************************************)
(* C29: the file cursor, when present, is the index of a candidate         *)
(* document; in FileSelection no Up moves it off the first document and    *)
(* no Down moves it off the last; and with no candidate document the       *)
(* cursor is absent and no Enter changes anything.                         *)
(***************************************************************************)
C29_FileCursorInRange ==
    /\ list_selected # None =>
          (list_selected[1] >= 0 /\ list_selected[1] < Len(disk.src))
    /\ (Running /\ state = "FileSelection") =>
          /\ list_selected = Some(0) =>
                ~ENABLED (FileSelection_Up /\ list_selected' # list_selected)
          /\ list_selected = Some(Len(disk.src) - 1) =>
                ~ENABLED (FileSelection_Down /\ list_selected' # list_selected)
          /\ disk.src = << >> =>
                /\ list_selected = None
                /\ ~ENABLED (FileSelection_Enter /\ vars' # vars)

\* the file cursor is on the last of two documents
C29_Witness ==
    /\ state = "FileSelection"
    /\ loop = "running"
    /\ Len(disk.src) = 2
    /\ list_selected = Some(1)

(***************************************************************************)
(* C30: as long as a session lives (every event but the open that builds   *)
(* a new one), the sequence of its entry keys and the original value of    *)
(* every entry stay what they were; and at every moment they are the keys  *)
(* and values of the source document, which no event writes.               *)
(***************************************************************************)
\* the keys, and the original values, of a session's entries, in order
KeysOf(st) == [i \in 1 .. Len(st.entries) |-> st.entries[i].key]
OriginalsOf(st) == [i \in 1 .. Len(st.entries) |-> st.entries[i].original]

C30_KeysAndOriginalsFixed ==
    /\ [](editing # None =>
             LET doc == disk.src[editing[1].original_path].m IN
             /\ KeysOf(editing[1]) = [i \in 1 .. Len(doc) |-> doc[i].key]
             /\ OriginalsOf(editing[1]) = [i \in 1 .. Len(doc) |-> doc[i].value]
             /\ editing[1].total_keys = Len(doc))
    /\ [][/\ disk'.src = disk.src
          /\ (editing # None /\ ~(state = "FileSelection" /\ state' = "Editing")) =>
                /\ editing' # None
                /\ KeysOf(editing'[1]) = KeysOf(editing[1])
                /\ OriginalsOf(editing'[1]) = OriginalsOf(editing[1])]_vars

\* a session whose entry was edited and flagged and that was then saved
C30_Witness ==
    /\ state = "Editing"
    /\ commits = 1
    /\ editing # None
    /\ Saved(io)
    /\ editing[1].translated_keys = 2
    /\ editing[1].entries[2].translated # editing[1].entries[2].original
    /\ editing[1].entries[2].original = StrV(<<"b">>)

(***************************************************************************)
(* C31: once the state is Exiting the loop has ended, and no step changes  *)
(* the state, the session or a file.                                       *)
(***************************************************************************)
C31_ExitingIsTerminal ==
    /\ [](state = "Exiting" => loop = "returned")
    /\ [][state = "Exiting" =>
             /\ state' = "Exiting"
             /\ editing' = editing
             /\ disk' = disk]_vars

\* the program has ended through a confirmed save-and-exit, its notification
\* still armed
C31_Witness ==
    /\ state = "Exiting"
    /\ loop = "returned"
    /\ editing # None
    /\ editing[1].save_notification = Some(0)

(***************************************************************************)
(* C32: a save notification is never still armed once more than its        *)
(* window of NOTIFY_SECS seconds has passed since it was armed, whether    *)
(* or not an input event has arrived in the meantime.                      *)
(***************************************************************************)
C32_NotificationClearedInTime ==
    (loop = "running" /\ NotificationOf(editing) # None) =>
        NotificationOf(editing)[1] <= NOTIFY_SECS

(***************************************************************************)
(* C33: the session an open creates is a function of the source document,  *)
(* the snapshot and the ledger on disk at that moment alone: its entries   *)
(* come from those three files, its row cursor is on the first entry, and  *)
(* it has no search, no field edit and no notification, whatever session   *)
(* the program held in memory before.                                      *)
(***************************************************************************)
\* the session that the files of document f determine
OpenedFrom(d, f) ==
    LET doc == d.src[f].m
        flagged == {i \in 1 .. Len(doc) : doc[i].key \in LedgerKeys(d, f)}
    IN  [entries |-> [i \in 1 .. Len(doc) |->
                        [key |-> doc[i].key,
                         original |-> doc[i].value,
                         translated |-> IF SnapshotValue(d, f, doc[i].key) # None
                                        THEN SnapshotValue(d, f, doc[i].key)[1]
                                        ELSE doc[i].value,
                         is_translated |-> i \in flagged]],
         table_selected |-> Some(0),
         original_path |-> f,
         editing |-> None,
         input |-> << >>,
         cursor_pos |-> 0,
         search_query |-> << >>,
         search_mode |-> FALSE,
         search_results |-> << >>,
         search_selection |-> None,
         total_keys |-> Len(doc),
         translated_keys |-> Cardinality(flagged),
         save_notification |-> None]

C33_OpenDependsOnDiskOnly ==
    [][(state = "FileSelection" /\ state' = "Editing") =>
          editing' = Some(OpenedFrom(disk, list_selected[1] + 1))]_vars

\* a document opened again after a session that was saved and left: the
\* snapshot that session wrote holds the text it committed, the ledger the
\* key it marked, and the new session starts on the first entry without a
\* notification
C33_Witness ==
    /\ state = "Editing"
    /\ io = << >>
    /\ request = Some("Esc")
    /\ commits = 1
    /\ editing # None
    /\ editing = Some(OpenedFrom(disk, 1))
    /\ disk.snap[1].k = "object"
    /\ disk.snap[1] # PriorSnapshot
    /\ editing[1].translated_keys = 2

(***************************************************************************)
(* C34: in field-edit mode, with the draft taken as a sequence of          *)
(* characters: typing c gives the draft with c put in at the caret and the *)
(* caret one further; Backspace with the caret past 0 gives the draft      *)
(* without the character before the caret and the caret one back; Delete   *)
(* with the caret before the end gives the draft without the character at  *)
(* the caret and the same caret; Backspace at 0 and Delete at the end      *)
(* change nothing; Backspace after typing c gives back the draft and the   *)
(* caret. Nothing else of the session changes.                             *)
(***************************************************************************)
\* the draft s without its character number n (counted from 0)
Without(s, n) == SubSeq(s, 1, n) \o SubSeq(s, n + 2, Len(s))

C34_CaretEditing ==
    InFieldEdit =>
        LET st == editing[1]
            s == st.input
            n == st.cursor_pos
        IN  /\ \A c \in DraftChars :
                  /\ key_char(st, c) =
                        [st EXCEPT !.input = SubSeq(s, 1, n) \o <<c>> \o SubSeq(s, n + 1, Len(s)),
                                   !.cursor_pos = n + 1]
                  /\ key_backspace(key_char(st, c)) = st
            /\ n > 0 => key_backspace(st) =
                            [st EXCEPT !.input = Without(s, n - 1), !.cursor_pos = n - 1]
            /\ n < Len(s) => key_delete(st) = [st EXCEPT !.input = Without(s, n)]
            /\ n = 0 => key_backspace(st) = st
            /\ n = Len(s) => key_delete(st) = st

\* a draft of three characters with the two-byte character first and last
\* and the caret between the last two
C34_Witness ==
    /\ InFieldEdit
    /\ editing[1].input = <<EAcute, "b", EAcute>>
    /\ editing[1].cursor_pos = 2

(***************************************************************************)
(* C35: in every state of a session the caret is at least 0 and at most    *)
(* the number of characters of the draft, and the step that enters         *)
(* field-edit mode seeds the draft with the text of the entry and puts the *)
(* caret at its end.                                                       *)
(***************************************************************************)
C35_CaretInRange ==
    /\ [](editing # None =>
             /\ 0 <= editing[1].cursor_pos
             /\ editing[1].cursor_pos <= Len(editing[1].input))
    /\ [][(/\ editing # None /\ editing[1].editing = None
           /\ editing' # None /\ editing'[1].editing # None) =>
             /\ editing'[1].cursor_pos = Len(editing'[1].input)
             /\ editing'[1].editing[1] < Len(editing[1].entries) =>
                    editing'[1].input =
                        format_json_value(
                            editing[1].entries[editing'[1].editing[1] + 1].translated)]_vars

\* the editor entered again on a committed text of three characters: the
\* caret is at 3, and the draft takes 5 bytes
C35_Witness ==
    /\ InFieldEdit
    /\ commits = 1
    /\ editing[1].entries[1].translated = StrV(<<EAcute, EAcute, "b">>)
    /\ editing[1].input = <<EAcute, EAcute, "b">>
    /\ editing[1].cursor_pos = 3
    /\ byte_len(editing[1].input) = 5

(***************************************************************************)
(* C36: while a document is open (Editing or SaveConfirmation) and no      *)
(* event has failed, the keys of the document that the structured ledger   *)
(* on disk lists are exactly the keys of the entries marked translated.    *)
(***************************************************************************)
C36_LedgerAgreesWithFlags ==
    (state \in {"Editing", "SaveConfirmation"} /\ editing # None /\ result = "Ok") =>
        LedgerKeys(disk, editing[1].original_path) \cap Range(KeysOf(editing[1]))
            = TranslatedKeySet(editing[1])

\* a confirmation is pending over a session opened beside a ledger that
\* lists one key of the document and one key the document lacks
C36_Witness ==
    /\ state = "SaveConfirmation"
    /\ result = "Ok"
    /\ editing # None
    /\ KeyQ \in LedgerKeys(disk, editing[1].original_path)
    /\ TranslatedKeySet(editing[1]) = {KeyBT}

(***************************************************************************)
(* C37: the top-level state goes from Editing or SaveConfirmation to       *)
(* FileSelection or Exiting only in a confirm of SaveConfirmation that     *)
(* returned Ok after writing the snapshot and the ledger, which then hold  *)
(* the session; so whenever a session has been left, both files on disk    *)
(* hold its entries.                                                       *)
(***************************************************************************)
C37_LeftOnlyBySaving ==
    /\ []((state \in {"FileSelection", "Exiting"} /\ editing # None) =>
             /\ SnapshotMatches(disk, editing[1])
             /\ LedgerMatches(disk, editing[1]))
    /\ [][(state \in {"Editing", "SaveConfirmation"}
           /\ state' \in {"FileSelection", "Exiting"}) =>
             /\ state = "SaveConfirmation"
             /\ result' = "Ok"
             /\ Len(io') >= 2 /\ io'[1] = "json_write" /\ io'[2] = "toml_write"
             /\ editing # None /\ editing' # None
             /\ editing'[1].entries = editing[1].entries
             /\ SnapshotMatches(disk', editing[1])
             /\ LedgerMatches(disk', editing[1])]_vars

\* a session with a committed text and a flag of its own was left for the
\* file list
C37_Witness ==
    /\ state = "FileSelection"
    /\ request = Some("Esc")
    /\ commits = 1
    /\ editing # None
    /\ editing[1].entries[1].translated = StrV(<<"T">>)
    /\ editing[1].entries[1].is_translated
    /\ disk.snap[1].k = "object"

(***************************************************************************)
(* C38: while search mode or field-edit mode is on, every event leaves     *)
(* the state Editing, every is_translated flag, translated_keys and both   *)
(* artifacts on disk as they were, and makes no file-system call; in       *)
(* search mode an event that keeps the mode leaves the query, adds one     *)
(* character to it or takes its last character away.                       *)
(***************************************************************************)
FlagsOf(st) == [i \in 1 .. Len(st.entries) |-> st.entries[i].is_translated]

C38_TextModesMaskCommands ==
    [][(/\ state = "Editing" /\ editing # None
        /\ (editing[1].search_mode \/ editing[1].editing # None)) =>
          /\ state' = "Editing"
          /\ editing' # None
          /\ FlagsOf(editing'[1]) = FlagsOf(editing[1])
          /\ editing'[1].translated_keys = editing[1].translated_keys
          /\ disk' = disk
          /\ io' = << >>
          /\ (editing[1].search_mode /\ editing'[1].search_mode) =>
                \/ editing'[1].search_query = editing[1].search_query
                \/ \E c \in TextChars :
                      editing'[1].search_query = Append(editing[1].search_query, c)
                \/ /\ editing[1].search_query # << >>
                   /\ editing'[1].search_query
                         = SubSeq(editing[1].search_query, 1,
                                  Len(editing[1].search_query) - 1)]_vars

\* the toggle key was typed in search mode over a document with no ledger:
\* it is in the query, and no entry is flagged
C38_Witness ==
    /\ state = "Editing"
    /\ editing # None /\ editing[1].search_mode
    /\ editing[1].search_query = <<"T">>
    /\ editing[1].translated_keys = 0
    /\ Len(editing[1].entries) = 2
    /\ disk.toml[1] = Missing

(***************************************************************************)
(* C39: in every state with a session the search selection is None or an   *)
(* index below the length of the match list, and every element of the      *)
(* match list is the index of an entry; and every query keystroke (a       *)
(* character typed, or Backspace) ends with the selection on the first     *)
(* match when the new match list has one, and None when it has not.        *)
(***************************************************************************)
C39_SelectionInRange ==
    /\ [](editing # None =>
             LET st == editing[1] IN
             /\ \/ st.search_selection = None
                \/ /\ 0 <= st.search_selection[1]
                   /\ st.search_selection[1] < Len(st.search_results)
             /\ \A j \in 1 .. Len(st.search_results) :
                   /\ 0 <= st.search_results[j]
                   /\ st.search_results[j] < Len(st.entries))
    /\ [][(Search_Char \/ Search_Backspace) =>
             editing'[1].search_selection =
                 (IF editing'[1].search_results # << >> THEN Some(0) ELSE None)]_vars

\* a character typed with the selection on the second of two matches left
\* one match, which is selected
C39_Witness ==
    /\ state = "Editing"
    /\ editing # None /\ editing[1].search_mode
    /\ editing[1].search_query = <<"T">>
    /\ editing[1].search_results = <<1>>
    /\ editing[1].search_selection = Some(0)
    /\ editing[1].table_selected = Some(0)

(***************************************************************************)
(* C40: in search mode Up and Down never change the match list. With a     *)
(* match list that is not empty: from no selection Down selects the first  *)
(* match and Up the last; from a match that is not the last Down selects   *)
(* the next, and from the last it selects none, so that Down goes through  *)
(* first .. last, None, first.  With an empty match list the selection is  *)
(* None and Up and Down leave it so.                                       *)
(***************************************************************************)
C40_SelectionCycle ==
    InSearch =>
        LET st == editing[1]
            r == st.search_results
            sel == st.search_selection
        IN  /\ ~ENABLED (/\ (Search_Up \/ Search_Down)
                          /\ editing'[1].search_results # r)
            /\ (r # << >> /\ sel = None) =>
                  /\ ~ENABLED (Search_Down /\ editing'[1].search_selection # Some(0))
                  /\ ~ENABLED (Search_Up
                               /\ editing'[1].search_selection # Some(Len(r) - 1))
            /\ (r # << >> /\ sel # None /\ sel[1] < Len(r) - 1) =>
                  ~ENABLED (Search_Down
                            /\ editing'[1].search_selection # Some(sel[1] + 1))
            /\ (r # << >> /\ sel = Some(Len(r) - 1)) =>
                  ~ENABLED (Search_Down /\ editing'[1].search_selection # None)
            /\ r = << >> =>
                  /\ sel = None
                  /\ ~ENABLED (/\ (Search_Up \/ Search_Down)
                                /\ editing'[1].search_selection # None)

\* Down has gone from the first to the second of two matches
C40_Witness ==
    /\ state = "Editing"
    /\ editing # None /\ editing[1].search_mode
    /\ Len(editing[1].search_results) = 2
    /\ editing[1].search_selection = Some(1)

====
